---- MODULE Spec2Model ----
(***************************************************************************)
(* Model of the index-loading and snapshot-consolidation subsystem of the  *)
(* object store: git-odb/src/store/general/load_indices.rs.                *)
(*                                                                         *)
(* The Store owns an atomically swappable published Index, the slot array  *)
(* `files`, a consolidation counter, the stable-handle counter and the     *)
(* mutex over the object directory path.  Caller threads run               *)
(* load_next_indices and collect_snapshot; every access to shared state    *)
(* (an atomic load, a lock, a fetch_add) is one step of the model.         *)
(***************************************************************************)
EXTENDS Integers, Sequences, FiniteSets, TLC

(* ------------------------------ bounds -------------------------------- *)

MaxStateId == 2
MaxGeneration == 1
MaxConsolidations == 1

Threads == {"t1", "t2"}
Callers == {"t1"}
Slots == {0, 1}
Resources == {"pack-a", "multi-b"}
Modes == {"Never", "AfterAllIndicesLoaded"}
\* what a consolidation meets on disk: the alternates cannot be resolved, or
\* they can and the object directories hold what the Index knows, or a new pack
DiskStates == {"unreadable", "unchanged", "new-pack"}

(* ------------------------------ values -------------------------------- *)

Range(s) == {s[i] : i \in 1..Len(s)}

\* Option<SlotIndexMarker>
NoMarker == [some |-> FALSE, generation |-> 0, state_id |-> 0]
SomeMarker(g, s) == [some |-> TRUE, generation |-> g, state_id |-> s]

\* a slot with no content: `file.files.load()` is None
EmptySlot == [kind |-> "None", res |-> "", index |-> FALSE, data |-> <<>>]

KindOf(r) == IF r = "pack-a" THEN "Index" ELSE "MultiIndex"
\* the number of pack data files of a resource: one for a single pack, and the
\* multi-pack index "multi-b" covers one pack as well
PacksOf(r) == 1

\* a populated slot whose index and pack data are not loaded yet
FreshSlot(r) ==
    [kind |-> KindOf(r), res |-> r, index |-> FALSE,
     data |-> [k \in 1..PacksOf(r) |-> FALSE]]

NoSnapshot == [some |-> FALSE]
NoResult == [kind |-> "Pending"]

(* ------------------------------- state -------------------------------- *)

VARIABLES
    index,              \* the published Index behind the atomic pointer `self.index`
    published,          \* history: every Index value the pointer has held so far
    files,              \* the slot array `self.files`: slot id -> content
    numConsolidations,  \* `self.num_disk_state_consolidation`
    numHandlesStable,   \* `self.num_handles_stable`
    pathLock,           \* holder of the mutex `self.path`: "free", a thread, or "maint"
    pc,                 \* where each caller thread stands
    args,               \* the running call of each thread: its arguments and what line 40 loaded
    work,               \* collect_snapshot's locals: the Index it loaded, the iterator, the Vec so far
    result,             \* what the running call returned
    held,               \* the Snapshot the thread's Handle keeps from its last successful call
    stable,             \* whether the thread's Handle has declared that it needs stable pack ids
    maint,              \* the maintenance operation around may_unload_packs
    input,              \* the bytes given to Pattern::from_bytes
    parsed              \* what Pattern::from_bytes returned for them

vars == <<index, published, files, numConsolidations, numHandlesStable, pathLock,
          pc, args, work, result, held, stable, maint, input, parsed>>

NoArgs == [op |-> "none", mode |-> "Never", marker |-> NoMarker,
           seen |-> NoMarker, initialized |-> FALSE, decision |-> "none",
           disk |-> "none"]
NoWork == [slot_indices |-> <<>>, loose_dbs |-> 0, marker |-> NoMarker,
           cursor |-> 0, acc |-> <<>>]
MaintIdle == [pc |-> "idle", may |-> FALSE, live |-> 0]
NotParsed == [kind |-> "Pending"]

(* ---------------------------- pure functions -------------------------- *)

\* SlotMapIndex::marker()
IndexMarker(i) == SomeMarker(i.generation, i.state_id)

\* Mutants of Decide: each is the match with one plausible slip.
\* the equal-marker test is taken before the is_initialized test
DecideMarkerFirst(idx, mode, marker) ==
    IF marker.some /\ marker.generation = idx.generation
                   /\ marker.state_id = idx.state_id /\ mode = "Never" THEN "none"
    ELSE IF ~idx.initialized THEN "consolidate"
    ELSE IF marker.some
         THEN IF marker.generation # idx.generation THEN "replace"
              ELSE IF marker.state_id = idx.state_id THEN "consolidate"
              ELSE "stable"
         ELSE "replace"
\* RefreshMode::Never refreshes from disk like AfterAllIndicesLoaded
DecideNeverRefreshes(idx, mode, marker) ==
    IF ~idx.initialized THEN "consolidate"
    ELSE IF marker.some
         THEN IF marker.generation # idx.generation THEN "replace"
              ELSE IF marker.state_id = idx.state_id THEN "consolidate"
              ELSE "stable"
         ELSE "replace"
\* the state id is compared before the generation
DecideStateIdFirst(idx, mode, marker) ==
    IF ~idx.initialized THEN "consolidate"
    ELSE IF marker.some
         THEN IF marker.state_id # idx.state_id THEN "stable"
              ELSE IF marker.generation # idx.generation THEN "replace"
              ELSE IF mode = "Never" THEN "none" ELSE "consolidate"
         ELSE "replace"
\* the last branch passes stable = false
DecideNeverStable(idx, mode, marker) ==
    IF ~idx.initialized THEN "consolidate"
    ELSE IF marker.some
         THEN IF marker.generation # idx.generation THEN "replace"
              ELSE IF marker.state_id = idx.state_id
                   THEN IF mode = "Never" THEN "none" ELSE "consolidate"
                   ELSE "replace"
         ELSE "replace"
\* a call without a marker refreshes from disk when the mode allows it
DecideNoMarkerRefreshes(idx, mode, marker) ==
    IF ~idx.initialized THEN "consolidate"
    ELSE IF marker.some
         THEN IF marker.generation # idx.generation THEN "replace"
              ELSE IF marker.state_id = idx.state_id
                   THEN IF mode = "Never" THEN "none" ELSE "consolidate"
                   ELSE "stable"
         ELSE IF mode = "Never" THEN "replace" ELSE "consolidate"

\* a marker of an older state id refreshes from disk when the mode allows it
DecideStaleMarkerRefreshes(idx, mode, marker) ==
    IF ~idx.initialized THEN "consolidate"
    ELSE IF marker.some
         THEN IF marker.generation # idx.generation THEN "replace"
              ELSE IF marker.state_id = idx.state_id
                   THEN IF mode = "Never" THEN "none" ELSE "consolidate"
                   ELSE IF mode = "Never" THEN "stable" ELSE "consolidate"
         ELSE "replace"

\* The match of load_next_indices after the atomic load of the Index.
Decide(idx, mode, marker) ==
    IF ~idx.initialized THEN "consolidate"
    ELSE IF marker.some
         THEN IF marker.generation # idx.generation THEN "replace"
              ELSE IF marker.state_id = idx.state_id
                   THEN IF mode = "Never" THEN "none" ELSE "consolidate"
                   ELSE "stable"
         ELSE "replace"

\* Mutant of Lookup: a slot whose pack data is not mapped yet is skipped too.
LookupNeedsData(id, f) ==
    IF f.kind = "None" THEN <<>>
    ELSE IF ~f.index THEN <<>>
    ELSE IF \E k \in 1..Len(f.data) : ~f.data[k] THEN <<>>
    ELSE <<[id |-> id,
            kind |-> IF f.kind = "Index" THEN "Single" ELSE "Multi",
            index |-> f.res,
            data |-> f.data]>>

\* The closure of collect_snapshot's filter_map: zero or one IndexLookup for a slot.
Lookup(id, f) ==
    IF f.kind = "None" THEN <<>>
    ELSE IF ~f.index THEN <<>>
    ELSE <<[id |-> id,
            kind |-> IF f.kind = "Index" THEN "Single" ELSE "Multi",
            index |-> f.res,
            data |-> f.data]>>

\* struct Snapshot
Snapshot(indices, loose_dbs, marker) ==
    [some |-> TRUE, indices |-> indices, loose_dbs |-> loose_dbs, marker |-> marker]

\* collect_replace_outcome, and the bare Snapshot of a direct collect_snapshot call
Outcome(decision, snapshot) ==
    [kind |-> CASE decision = "stable" -> "ReplaceStable"
                [] decision = "replace" -> "Replace"
                [] OTHER -> "Snapshot",
     snapshot |-> snapshot]

\* Mutant of MayUnloadPacks: one stable Handle is tolerated.
MayUnloadPacksOffByOne == numHandlesStable <= 1

\* may_unload_packs
MayUnloadPacks == numHandlesStable = 0

LiveStable == {t \in Threads : stable[t]}

(* -------------------------------- Init -------------------------------- *)

UninitializedIndex ==
    [initialized |-> FALSE, generation |-> 0, state_id |-> 0,
     slot_indices |-> <<>>, loose_dbs |-> 0]

Init ==
    /\ \/ /\ index = UninitializedIndex
          /\ files = [s \in Slots |-> EmptySlot]
       \/ /\ index = [initialized |-> TRUE, generation |-> 0, state_id |-> 0,
                      slot_indices |-> <<0>>, loose_dbs |-> 1]
          /\ files = [s \in Slots |-> IF s = 0 THEN FreshSlot("pack-a") ELSE EmptySlot]
    /\ published = {index}
    /\ numConsolidations = 0
    /\ numHandlesStable = 0
    /\ pathLock = "free"
    /\ pc = [t \in Threads |-> "idle"]
    /\ args = [t \in Threads |-> NoArgs]
    /\ work = [t \in Threads |-> NoWork]
    /\ result = [t \in Threads |-> NoResult]
    /\ held = [t \in Threads |-> NoSnapshot]
    /\ stable = [t \in Threads |-> FALSE]
    /\ maint = MaintIdle
    /\ input = <<>>
    /\ parsed = NotParsed

(* ------------------------- load_next_indices -------------------------- *)

InConsolidation == {t \in Threads : pc[t] \in {"lock", "recheck", "resolve"}}

\* Lines 35-65: the atomic load of the Index and the decision taken on it.
LoadNextIndices(t, mode, useMarker) ==
    /\ pc[t] = "idle"
    /\ useMarker => held[t].some
    /\ LET marker == IF useMarker THEN held[t].marker ELSE NoMarker
           d == Decide(index, mode, marker)
       IN /\ d = "consolidate" => numConsolidations < MaxConsolidations
          /\ args' = [args EXCEPT ![t] =
                        [op |-> "load_next_indices", mode |-> mode, marker |-> marker,
                         seen |-> IndexMarker(index), initialized |-> index.initialized,
                         decision |-> d, disk |-> "none"]]
          /\ pc' = [pc EXCEPT ![t] = CASE d = "consolidate" -> "lock"
                                       [] d = "none" -> "done"
                                       [] OTHER -> "collect"]
          /\ result' = [result EXCEPT ![t] =
                          IF d = "none" THEN [kind |-> "None"] ELSE NoResult]
    /\ UNCHANGED <<input, parsed, index, published, files, numConsolidations, numHandlesStable, pathLock,
                   work, held, stable, maint>>

\* A direct call of collect_snapshot (pub(crate)).
CallCollectSnapshot(t) ==
    /\ pc[t] = "idle"
    /\ args' = [args EXCEPT ![t] = [NoArgs EXCEPT !.op = "collect_snapshot",
                                                  !.decision = "snapshot"]]
    /\ pc' = [pc EXCEPT ![t] = "collect"]
    /\ UNCHANGED <<input, parsed, index, published, files, numConsolidations, numHandlesStable, pathLock,
                   work, result, held, stable, maint>>

(* --------------------------- collect_snapshot ------------------------- *)

\* Lines 112-125: the Snapshot is assembled and the call returns.
Return(t, indices, loose_dbs, marker) ==
    /\ result' = [result EXCEPT ![t] =
                    Outcome(args[t].decision, Snapshot(indices, loose_dbs, marker))]
    /\ work' = [work EXCEPT ![t] = NoWork]
    /\ pc' = [pc EXCEPT ![t] = "done"]

\* Mutant of CollectLoadIndex: collect_snapshot takes the path mutex for its
\* load of the Index.
CollectLoadIndexLocking(t) ==
    /\ pc[t] = "collect"
    /\ pathLock = "free"
    /\ IF index.slot_indices = <<>>
       THEN Return(t, <<>>, index.loose_dbs, IndexMarker(index))
       ELSE /\ work' = [work EXCEPT ![t] =
                          [slot_indices |-> index.slot_indices,
                           loose_dbs |-> index.loose_dbs,
                           marker |-> IndexMarker(index),
                           cursor |-> 1, acc |-> <<>>]]
            /\ pc' = [pc EXCEPT ![t] = "slots"]
            /\ UNCHANGED result
    /\ UNCHANGED <<input, parsed, index, published, files, numConsolidations, numHandlesStable, pathLock,
                   args, held, stable, maint>>

\* Mutant of CollectLoadIndex: the loose-db list is taken from the Snapshot the
\* caller already holds instead of the Index just loaded.
CollectLoadIndexReusesLooseDbs(t) ==
    /\ pc[t] = "collect"
    /\ LET loose_dbs == IF held[t].some THEN held[t].loose_dbs ELSE index.loose_dbs
       IN IF index.slot_indices = <<>>
          THEN Return(t, <<>>, loose_dbs, IndexMarker(index))
          ELSE /\ work' = [work EXCEPT ![t] =
                             [slot_indices |-> index.slot_indices,
                              loose_dbs |-> loose_dbs,
                              marker |-> IndexMarker(index),
                              cursor |-> 1, acc |-> <<>>]]
               /\ pc' = [pc EXCEPT ![t] = "slots"]
               /\ UNCHANGED result
    /\ UNCHANGED <<input, parsed, index, published, files, numConsolidations, numHandlesStable, pathLock,
                   args, held, stable, maint>>

\* Line 92: collect_snapshot loads the Index (its own atomic load).
CollectLoadIndex(t) ==
    /\ pc[t] = "collect"
    /\ IF index.slot_indices = <<>>
       THEN Return(t, <<>>, index.loose_dbs, IndexMarker(index))
       ELSE /\ work' = [work EXCEPT ![t] =
                          [slot_indices |-> index.slot_indices,
                           loose_dbs |-> index.loose_dbs,
                           marker |-> IndexMarker(index),
                           cursor |-> 1, acc |-> <<>>]]
            /\ pc' = [pc EXCEPT ![t] = "slots"]
            /\ UNCHANGED result
    /\ UNCHANGED <<input, parsed, index, published, files, numConsolidations, numHandlesStable, pathLock,
                   args, held, stable, maint>>

\* Mutant of CollectSlot: the lookups are pushed into the Vec of the Snapshot
\* the caller already holds, reusing its allocation.
CollectSlotInPlace(t) ==
    /\ pc[t] = "slots"
    /\ LET w == work[t]
           id == w.slot_indices[w.cursor]
           acc == w.acc \o Lookup(id, files[id])
       IN /\ IF w.cursor = Len(w.slot_indices)
             THEN Return(t, acc, w.loose_dbs, w.marker)
             ELSE /\ work' = [work EXCEPT ![t].cursor = w.cursor + 1, ![t].acc = acc]
                  /\ UNCHANGED <<pc, result>>
          /\ held' = [held EXCEPT ![t] =
                        IF held[t].some THEN [held[t] EXCEPT !.indices = acc]
                        ELSE held[t]]
    /\ UNCHANGED <<input, parsed, index, published, files, numConsolidations, numHandlesStable, pathLock,
                   args, stable, maint>>

\* Mutant of CollectSlot: the marker is taken from a second load of the Index
\* when the Snapshot is assembled.
CollectSlotLateMarker(t) ==
    /\ pc[t] = "slots"
    /\ LET w == work[t]
           id == w.slot_indices[w.cursor]
           acc == w.acc \o Lookup(id, files[id])
       IN IF w.cursor = Len(w.slot_indices)
          THEN Return(t, acc, w.loose_dbs, IndexMarker(index))
          ELSE /\ work' = [work EXCEPT ![t].cursor = w.cursor + 1, ![t].acc = acc]
               /\ UNCHANGED <<pc, result>>
    /\ UNCHANGED <<input, parsed, index, published, files, numConsolidations, numHandlesStable, pathLock,
                   args, held, stable, maint>>

\* Mutant of CollectSlot: a slot whose index is not loaded yet is loaded on
\* the spot.
CollectSlotLoadsOnDemand(t) ==
    /\ pc[t] = "slots"
    /\ LET w == work[t]
           id == w.slot_indices[w.cursor]
           f == IF files[id].kind # "None" THEN [files[id] EXCEPT !.index = TRUE]
                ELSE files[id]
           acc == w.acc \o Lookup(id, f)
       IN /\ files' = [files EXCEPT ![id] = f]
          /\ IF w.cursor = Len(w.slot_indices)
             THEN Return(t, acc, w.loose_dbs, w.marker)
             ELSE /\ work' = [work EXCEPT ![t].cursor = w.cursor + 1, ![t].acc = acc]
                  /\ UNCHANGED <<pc, result>>
    /\ UNCHANGED <<input, parsed, index, published, numConsolidations, numHandlesStable, pathLock,
                   args, held, stable, maint>>

\* Lines 93-110: one turn of the iterator, one atomic load of a slot's content.
CollectSlot(t) ==
    /\ pc[t] = "slots"
    /\ LET w == work[t]
           id == w.slot_indices[w.cursor]
           acc == w.acc \o Lookup(id, files[id])
       IN IF w.cursor = Len(w.slot_indices)
          THEN Return(t, acc, w.loose_dbs, w.marker)
          ELSE /\ work' = [work EXCEPT ![t].cursor = w.cursor + 1, ![t].acc = acc]
               /\ UNCHANGED <<pc, result>>
    /\ UNCHANGED <<input, parsed, index, published, files, numConsolidations, numHandlesStable, pathLock,
                   args, held, stable, maint>>

(* --------------------- consolidate_with_disk_state -------------------- *)

\* Mutant of Lock: the call goes on without waiting for the mutex.
LockNoWait(t) ==
    /\ pc[t] = "lock"
    /\ pathLock' = t
    /\ pc' = [pc EXCEPT ![t] = "recheck"]
    /\ UNCHANGED <<input, parsed, index, published, files, numConsolidations, numHandlesStable,
                   args, work, result, held, stable, maint>>

\* Line 70: self.path.lock()
Lock(t) ==
    /\ pc[t] = "lock"
    /\ pathLock = "free"
    /\ pathLock' = t
    /\ pc' = [pc EXCEPT ![t] = "recheck"]
    /\ UNCHANGED <<input, parsed, index, published, files, numConsolidations, numHandlesStable,
                   args, work, result, held, stable, maint>>

\* Mutant of Recheck: the consolidation is counted before the re-check.
RecheckCountsFirst(t) ==
    /\ pc[t] = "recheck"
    /\ numConsolidations' = numConsolidations + 1
    /\ IF args[t].seen.state_id # index.state_id
       THEN /\ result' = [result EXCEPT ![t] = [kind |-> "Panic"]]
            /\ pc' = [pc EXCEPT ![t] = "done"]
            /\ pathLock' = "free"
       ELSE /\ pc' = [pc EXCEPT ![t] = "resolve"]
            /\ UNCHANGED <<result, pathLock>>
    /\ UNCHANGED <<input, parsed, index, published, files, numHandlesStable, args, work, held, stable, maint>>

\* Lines 71-74: the re-check of the state id under the lock (todo!() when it
\* changed: the panic unwinds and drops the guard), then the counter.
Recheck(t) ==
    /\ pc[t] = "recheck"
    /\ IF args[t].seen.state_id # index.state_id
       THEN /\ result' = [result EXCEPT ![t] = [kind |-> "Panic"]]
            /\ pc' = [pc EXCEPT ![t] = "done"]
            /\ pathLock' = "free"
            /\ UNCHANGED numConsolidations
       ELSE /\ numConsolidations' = numConsolidations + 1
            /\ pc' = [pc EXCEPT ![t] = "resolve"]
            /\ UNCHANGED <<result, pathLock>>
    /\ UNCHANGED <<input, parsed, index, published, files, numHandlesStable, args, work, held, stable, maint>>

\* Mutant of ResolveOutcome: an object directory whose alternates cannot be
\* resolved counts as nothing new.
ResolveOutcomeSwallowsError(disk) == IF disk = "unreadable" THEN "None" ELSE "Panic"

\* Lines 75-79 after alternate::resolve: its error is returned by `?`, and on
\* success the function reaches todo!().
ResolveOutcome(disk) == IF disk = "unreadable" THEN "Err" ELSE "Panic"

\* Mutant of Resolve: the Store counts as initialized once a consolidation was
\* tried, also when it failed.
ResolveInitializesOnError(t) ==
    /\ pc[t] = "resolve"
    /\ \E disk \in DiskStates :
          /\ args' = [args EXCEPT ![t].disk = disk]
          /\ result' = [result EXCEPT ![t] = [kind |-> ResolveOutcome(disk)]]
    /\ index' = [index EXCEPT !.initialized = TRUE]
    /\ published' = published \cup {index'}
    /\ pc' = [pc EXCEPT ![t] = "done"]
    /\ pathLock' = "free"
    /\ UNCHANGED <<input, parsed, files, numConsolidations, numHandlesStable,
                   work, held, stable, maint>>

\* Lines 75-79: alternate::resolve reads the disk and fails (the error is
\* returned) or succeeds, and then the function reaches todo!(); either way the
\* guard is dropped.
Resolve(t) ==
    /\ pc[t] = "resolve"
    /\ \E disk \in DiskStates :
          /\ args' = [args EXCEPT ![t].disk = disk]
          /\ result' = [result EXCEPT ![t] = [kind |-> ResolveOutcome(disk)]]
    /\ pc' = [pc EXCEPT ![t] = "done"]
    /\ pathLock' = "free"
    /\ UNCHANGED <<input, parsed, index, published, files, numConsolidations, numHandlesStable,
                   work, held, stable, maint>>

\* The caller takes the result: a Snapshot replaces the one its Handle held.
Finish(t) ==
    /\ pc[t] = "done"
    /\ held' = [held EXCEPT ![t] =
                  IF result[t].kind \in {"Replace", "ReplaceStable", "Snapshot"}
                  THEN result[t].snapshot ELSE held[t]]
    /\ result' = [result EXCEPT ![t] = NoResult]
    /\ args' = [args EXCEPT ![t] = NoArgs]
    /\ pc' = [pc EXCEPT ![t] = "idle"]
    /\ UNCHANGED <<input, parsed, index, published, files, numConsolidations, numHandlesStable, pathLock,
                   work, stable, maint>>

(* ------------------- the Store's other operations --------------------- *)

\* Mutant of NextStateId: the state id counts within a generation and starts
\* over when the generation is bumped.
NextStateIdPerGeneration(i, bump) == IF bump THEN 0 ELSE i.state_id + 1

\* Mutant of NextStateId: only a reorganization gets a new state id.
NextStateIdOnReorganization(i, bump) == IF bump THEN i.state_id + 1 ELSE i.state_id

\* Mutant of NextGeneration: the generation is never bumped.
NextGenerationNeverBumps(i, bump) == i.generation

\* The state id and generation a newly published Index gets.
NextStateId(i, bump) == i.state_id + 1
NextGeneration(i, bump) == IF bump THEN i.generation + 1 ELSE i.generation

\* The Index an additive change publishes: slot s is populated with resource r
\* and appended; every slot known before keeps its place and its resource.
AdditiveIndex(i, s) ==
    [initialized |-> TRUE,
     generation |-> NextGeneration(i, FALSE),
     state_id |-> NextStateId(i, FALSE),
     slot_indices |-> Append(i.slot_indices, s),
     loose_dbs |-> IF i.loose_dbs = 0 THEN 1 ELSE i.loose_dbs]

\* The Index a reorganization publishes: slot ids are reused, so the
\* generation is bumped as well.
ReorganizedIndex(i, slot_indices) ==
    [initialized |-> TRUE,
     generation |-> NextGeneration(i, TRUE),
     state_id |-> NextStateId(i, TRUE),
     slot_indices |-> slot_indices,
     loose_dbs |-> i.loose_dbs]

\* A new pack or multi-pack index was found on disk: one more populated slot.
\* Done under the path mutex; the Index is replaced by one atomic swap.
SwapAdditive ==
    /\ pathLock = "free"
    /\ index.state_id < MaxStateId
    /\ \E s \in Slots \ Range(index.slot_indices) :
       \E r \in Resources \ {files[x].res : x \in Slots} :
          /\ files[s] = EmptySlot
          /\ files' = [files EXCEPT ![s] = FreshSlot(r)]
          /\ index' = AdditiveIndex(index, s)
    /\ published' = published \cup {index'}
    /\ UNCHANGED <<input, parsed, numConsolidations, numHandlesStable, pathLock,
                   pc, args, work, result, held, stable, maint>>

\* A reorganization: a populated slot is dropped, or its id is given to
\* another resource.
SwapGeneration ==
    /\ pathLock = "free"
    /\ index.initialized
    /\ index.state_id < MaxStateId
    /\ index.generation < MaxGeneration
    /\ \E k \in 1..Len(index.slot_indices) :
          LET s == index.slot_indices[k] IN
          \/ /\ files' = [files EXCEPT ![s] = EmptySlot]
             /\ index' = ReorganizedIndex(index,
                            SelectSeq(index.slot_indices, LAMBDA x : x # s))
          \/ \E r \in Resources \ {files[x].res : x \in Slots} :
                /\ files' = [files EXCEPT ![s] = FreshSlot(r)]
                /\ index' = ReorganizedIndex(index, index.slot_indices)
    /\ published' = published \cup {index'}
    /\ UNCHANGED <<input, parsed, numConsolidations, numHandlesStable, pathLock,
                   pc, args, work, result, held, stable, maint>>

\* Lazy loading: a populated slot's index file gets loaded in place.
LoadSlotIndex(s) ==
    /\ files[s].kind # "None"
    /\ ~files[s].index
    /\ files' = [files EXCEPT ![s].index = TRUE]
    /\ UNCHANGED <<input, parsed, index, published, numConsolidations, numHandlesStable, pathLock,
                   pc, args, work, result, held, stable, maint>>

\* Lazy loading: a pack data file of a slot with a loaded index gets mapped.
LoadSlotData(s) ==
    /\ files[s].index
    /\ \E k \in 1..Len(files[s].data) :
          /\ ~files[s].data[k]
          /\ files' = [files EXCEPT ![s].data[k] = TRUE]
    /\ UNCHANGED <<input, parsed, index, published, numConsolidations, numHandlesStable, pathLock,
                   pc, args, work, result, held, stable, maint>>

\* A Handle declares that it needs stable pack ids: one atomic increment.
RegisterStable(t) ==
    /\ pc[t] = "idle"
    /\ ~stable[t]
    /\ stable' = [stable EXCEPT ![t] = TRUE]
    /\ numHandlesStable' = numHandlesStable + 1
    /\ UNCHANGED <<input, parsed, index, published, files, numConsolidations, pathLock,
                   pc, args, work, result, held, maint>>

\* The Handle drops the requirement (or is dropped): one atomic decrement.
DeregisterStable(t) ==
    /\ pc[t] = "idle"
    /\ stable[t]
    /\ stable' = [stable EXCEPT ![t] = FALSE]
    /\ numHandlesStable' = numHandlesStable - 1
    /\ UNCHANGED <<input, parsed, index, published, files, numConsolidations, pathLock,
                   pc, args, work, result, held, maint>>

\* Maintenance takes the path mutex and asks may_unload_packs (lines 87-89).
\* `live` remembers how many stable Handles were live at that moment.
MaintCheck ==
    /\ maint.pc = "idle"
    /\ pathLock = "free"
    /\ \E s \in Slots : \E k \in 1..Len(files[s].data) : files[s].data[k]
    /\ pathLock' = "maint"
    /\ maint' = [pc |-> "checked", may |-> MayUnloadPacks,
                 live |-> Cardinality(LiveStable)]
    /\ UNCHANGED <<input, parsed, index, published, files, numConsolidations, numHandlesStable,
                   pc, args, work, result, held, stable>>

\* Maintenance acts on the answer: it unmaps the pack data of a slot when it
\* may, and releases the mutex.
MaintUnload ==
    /\ maint.pc = "checked"
    /\ IF maint.may
       THEN \E s \in Slots :
               /\ \E k \in 1..Len(files[s].data) : files[s].data[k]
               /\ files' = [files EXCEPT ![s].data =
                              [k \in 1..Len(files[s].data) |-> FALSE]]
       ELSE UNCHANGED files
    /\ pathLock' = "free"
    /\ maint' = MaintIdle
    /\ UNCHANGED <<input, parsed, index, published, numConsolidations, numHandlesStable,
                   pc, args, work, result, held, stable>>

(* ------------------------------- Next --------------------------------- *)

\* One caller against everything that changes the Store under it.
Next ==
    \/ \E t \in Callers : \E mode \in Modes : \E useMarker \in BOOLEAN :
          LoadNextIndices(t, mode, useMarker)
    \/ \E t \in Callers : CallCollectSnapshot(t)
    \/ \E t \in Callers : CollectLoadIndex(t)
    \/ \E t \in Callers : CollectSlot(t)
    \/ \E t \in Callers : Lock(t)
    \/ \E t \in Callers : Recheck(t)
    \/ \E t \in Callers : Resolve(t)
    \/ \E t \in Callers : Finish(t)
    \/ SwapAdditive
    \/ SwapGeneration
    \/ \E s \in Slots : LoadSlotIndex(s)
    \/ \E s \in Slots : LoadSlotData(s)
    \/ MaintCheck
    \/ MaintUnload

Spec == Init /\ [][Next]_vars

\* The Handles' stability requirement against the unloading of pack data.
NextUnload ==
    \/ \E t \in Threads : RegisterStable(t)
    \/ \E t \in Threads : DeregisterStable(t)
    \/ MaintCheck
    \/ MaintUnload
    \/ SwapAdditive
    \/ \E s \in Slots : LoadSlotIndex(s)
    \/ \E s \in Slots : LoadSlotData(s)

SpecUnload == Init /\ [][NextUnload]_vars

\* Two callers contending for the path mutex; the Index changes by additive
\* swaps only and the slots stay as they are.
NextContend ==
    \/ \E t \in Threads : \E mode \in Modes : \E useMarker \in BOOLEAN :
          LoadNextIndices(t, mode, useMarker)
    \/ \E t \in Threads : CollectLoadIndex(t)
    \/ \E t \in Threads : CollectSlot(t)
    \/ \E t \in Threads : Lock(t)
    \/ \E t \in Threads : Recheck(t)
    \/ \E t \in Threads : Resolve(t)
    \/ \E t \in Threads : Finish(t)
    \/ SwapAdditive

SpecContend == Init /\ [][NextContend]_vars

(* ------------------ git-pathspec: Pattern::from_bytes ----------------- *)

\* most keywords a generated long magic holds
MaxKeywords == 3

\* A byte string is a sequence of one-character strings; indices count from 0
\* as in the source.
Get(s, i) == IF i >= 0 /\ i < Len(s) THEN s[i + 1] ELSE "none"
Slice(s, a, b) == SubSeq(s, a + 1, b)
StartsWith(s, prefix) == Len(s) >= Len(prefix) /\ SubSeq(s, 1, Len(prefix)) = prefix
Find(s, ch) ==
    IF \E i \in 1..Len(s) : s[i] = ch
    THEN (CHOOSE i \in 1..Len(s) : s[i] = ch /\ \A j \in 1..(i - 1) : s[j] # ch) - 1
    ELSE -1

KwAttr == <<"a", "t", "t", "r">>
KwTop == <<"t", "o", "p">>
KwIcase == <<"i", "c", "a", "s", "e">>
KwExclude == <<"e", "x", "c", "l", "u", "d", "e">>
KwLiteral == <<"l", "i", "t", "e", "r", "a", "l">>
KwGlob == <<"g", "l", "o", "b">>
AttrPrefix == <<"a", "t", "t", "r", ":">>
PrefixPrefix == <<"p", "r", "e", "f", "i", "x", ":">>

\* Line 54-56; the double quote and the backtick are written by name.
UnimplementedChars ==
    {"dquote", "#", "%", "&", "'", ",", "-", ";", "<", "=", ">", "@", "_", "backtick", "~"}

\* Lines 31-36: the Pattern from_bytes starts with
NewPattern ==
    [path |-> <<>>, signature |-> {}, search_mode |-> "ShellGlob", attributes |-> <<>>]

Ok(p) == [kind |-> "Ok", pattern |-> p]
Err(e) == [kind |-> "Err", error |-> e]
Step(e, p, cursor) == [error |-> e, p |-> p, cursor |-> cursor]

\* parse_short_keywords
RECURSIVE ParseShortKeywords(_, _, _)
ParseShortKeywords(inp, p, cursor) ==
    LET b == Get(inp, cursor) IN
    IF b = "none" THEN Step("none", p, cursor)
    ELSE IF b = "/"
         THEN ParseShortKeywords(inp, [p EXCEPT !.signature = @ \cup {"TOP"}], cursor + 1)
    ELSE IF b \in {"^", "!"}
         THEN ParseShortKeywords(inp, [p EXCEPT !.signature = @ \cup {"EXCLUDE"}], cursor + 1)
    ELSE IF b = ":" THEN Step("none", p, cursor + 1)
    ELSE IF b \in UnimplementedChars THEN Step("Unimplemented", p, cursor + 1)
    ELSE Step("none", p, cursor)

\* The loop of split_on_non_escaped_char with its locals i, last and keywords.
RECURSIVE SplitLoop(_, _, _, _, _)
SplitLoop(inp, split_char, i, last, keywords) ==
    IF Get(inp, i + 1) # "none"
    THEN IF Get(inp, i + 1) = split_char /\ Get(inp, i) # "\\"
         THEN SplitLoop(inp, split_char, i + 2, i + 2,
                        Append(keywords, Slice(inp, last, i + 1)))
         ELSE SplitLoop(inp, split_char, i + 1, last, keywords)
    ELSE Append(keywords, Slice(inp, last, Len(inp)))

\* split_on_non_escaped_char
SplitOnNonEscapedChar(inp, split_char) == SplitLoop(inp, split_char, 0, 0, <<>>)

\* parse_attributes: an empty specification is an error; the attribute names
\* drawn here are plain ASCII names, which the attribute parser accepts.
ParseAttributes(inp) ==
    IF inp = <<>> THEN [error |-> "EmptyAttribute", attributes |-> <<>>]
    ELSE [error |-> "none", attributes |-> <<inp>>]

\* Mutant of ApplyKeyword: the search mode named last wins.
ApplyKeywordLastModeWins(p, keyword) ==
    IF keyword = KwAttr THEN [error |-> "none", p |-> p]
    ELSE IF keyword = KwTop
         THEN [error |-> "none", p |-> [p EXCEPT !.signature = @ \cup {"TOP"}]]
    ELSE IF keyword = KwIcase
         THEN [error |-> "none", p |-> [p EXCEPT !.signature = @ \cup {"ICASE"}]]
    ELSE IF keyword = KwExclude
         THEN [error |-> "none", p |-> [p EXCEPT !.signature = @ \cup {"EXCLUDE"}]]
    ELSE IF keyword = KwLiteral
         THEN [error |-> "none", p |-> [p EXCEPT !.search_mode = "Literal"]]
    ELSE IF keyword = KwGlob
         THEN [error |-> "none", p |-> [p EXCEPT !.search_mode = "PathAwareGlob"]]
    ELSE IF StartsWith(keyword, AttrPrefix)
         THEN IF p.attributes = <<>>
              THEN LET a == ParseAttributes(Slice(keyword, 5, Len(keyword)))
                   IN [error |-> a.error, p |-> [p EXCEPT !.attributes = a.attributes]]
              ELSE [error |-> "MultipleAttributeSpecifications", p |-> p]
    ELSE IF StartsWith(keyword, PrefixPrefix) THEN [error |-> "none", p |-> p]
    ELSE [error |-> "InvalidKeyword", p |-> p]

\* Lines 94-122: the match on one keyword of the long magic.
ApplyKeyword(p, keyword) ==
    IF keyword = KwAttr THEN [error |-> "none", p |-> p]
    ELSE IF keyword = KwTop
         THEN [error |-> "none", p |-> [p EXCEPT !.signature = @ \cup {"TOP"}]]
    ELSE IF keyword = KwIcase
         THEN [error |-> "none", p |-> [p EXCEPT !.signature = @ \cup {"ICASE"}]]
    ELSE IF keyword = KwExclude
         THEN [error |-> "none", p |-> [p EXCEPT !.signature = @ \cup {"EXCLUDE"}]]
    ELSE IF keyword = KwLiteral
         THEN IF p.search_mode = "PathAwareGlob"
              THEN [error |-> "IncompatibleSearchModes", p |-> p]
              ELSE [error |-> "none", p |-> [p EXCEPT !.search_mode = "Literal"]]
    ELSE IF keyword = KwGlob
         THEN IF p.search_mode = "Literal"
              THEN [error |-> "IncompatibleSearchModes", p |-> p]
              ELSE [error |-> "none", p |-> [p EXCEPT !.search_mode = "PathAwareGlob"]]
    ELSE IF StartsWith(keyword, AttrPrefix)
         THEN IF p.attributes = <<>>
              THEN LET a == ParseAttributes(Slice(keyword, 5, Len(keyword)))
                   IN [error |-> a.error, p |-> [p EXCEPT !.attributes = a.attributes]]
              ELSE [error |-> "MultipleAttributeSpecifications", p |-> p]
    ELSE IF StartsWith(keyword, PrefixPrefix) THEN [error |-> "none", p |-> p]
    ELSE [error |-> "InvalidKeyword", p |-> p]

\* Lines 93-123: the for loop over the keywords, left at the first error.
RECURSIVE ApplyKeywords(_, _, _)
ApplyKeywords(p, keywords, k) ==
    IF k > Len(keywords) THEN [error |-> "none", p |-> p]
    ELSE LET r == ApplyKeyword(p, keywords[k])
         IN IF r.error # "none" THEN r ELSE ApplyKeywords(r.p, keywords, k + 1)

\* parse_long_keywords; slicing with end before the cursor would panic.
ParseLongKeywords(inp, p, cursor) ==
    LET end == Find(inp, ")") IN
    IF end = -1 THEN Step("MissingClosingParenthesis", p, cursor)
    ELSE IF end < cursor THEN Step("Panic", p, cursor)
    ELSE LET body == Slice(inp, cursor, end) IN
         IF body = <<>> THEN Step("none", p, end + 1)
         ELSE LET r == ApplyKeywords(p, SplitOnNonEscapedChar(body, ","), 1)
              IN Step(r.error, r.p, end + 1)

\* Pattern::from_bytes
PatternFromBytes(inp) ==
    IF inp = <<>> THEN Err("EmptyString")
    ELSE IF Get(inp, 0) # ":" THEN Ok([NewPattern EXCEPT !.path = inp])
    ELSE LET s == ParseShortKeywords(inp, NewPattern, 1) IN
         IF s.error # "none" THEN Err(s.error)
         ELSE IF Get(inp, s.cursor) = "("
              THEN LET l == ParseLongKeywords(inp, s.p, s.cursor + 1) IN
                   IF l.error # "none" THEN Err(l.error)
                   ELSE Ok([l.p EXCEPT !.path = Slice(inp, l.cursor, Len(inp))])
              ELSE Ok([s.p EXCEPT !.path = Slice(inp, s.cursor, Len(inp))])

\* The pathspecs given to from_bytes: a magic opener, up to MaxKeywords pieces
\* joined by commas, and a rest with or without the closing parenthesis; and
\* some pathspecs without long magic.
Pieces ==
    {KwLiteral, KwGlob, KwTop, KwIcase, KwExclude, KwAttr,
     AttrPrefix \o <<"a">>, AttrPrefix, PrefixPrefix \o <<"x">>,
     <<"x">>, <<>>, KwTop \o <<"\\">>}
Openers == {<<":", "(">>, <<":", "!", "(">>}
Rests == {<<")", "f">>, <<>>}
RECURSIVE Join(_)
Join(ks) ==
    IF Len(ks) = 0 THEN <<>>
    ELSE IF Len(ks) = 1 THEN ks[1]
    ELSE ks[1] \o <<",">> \o Join(Tail(ks))
KeywordLists == UNION {[1..n -> Pieces] : n \in 0..MaxKeywords}
PlainInputs ==
    {<<>>, <<"f">>, <<":", "f">>, <<":", "/", "f">>, <<":", "-", "f">>,
     <<":", ":", "(">> \o KwGlob \o <<")", "f">>, <<":", ")", "(", "f">>}
Inputs ==
    {o \o Join(ks) \o r : o \in Openers, ks \in KeywordLists, r \in Rests}
       \cup PlainInputs

\* A Store nobody uses, and a pathspec to parse.
InitParse ==
    /\ input \in Inputs
    /\ parsed = NotParsed
    /\ index = UninitializedIndex
    /\ published = {index}
    /\ files = [s \in Slots |-> EmptySlot]
    /\ numConsolidations = 0
    /\ numHandlesStable = 0
    /\ pathLock = "free"
    /\ pc = [t \in Threads |-> "idle"]
    /\ args = [t \in Threads |-> NoArgs]
    /\ work = [t \in Threads |-> NoWork]
    /\ result = [t \in Threads |-> NoResult]
    /\ held = [t \in Threads |-> NoSnapshot]
    /\ stable = [t \in Threads |-> FALSE]
    /\ maint = MaintIdle

\* The call Pattern::from_bytes(input).
FromBytes ==
    /\ parsed = NotParsed
    /\ parsed' = PatternFromBytes(input)
    /\ UNCHANGED <<input, index, published, files, numConsolidations, numHandlesStable,
                   pathLock, pc, args, work, result, held, stable, maint>>

NextParse == FromBytes

SpecParse == InitParse /\ [][NextParse]_vars

(* ------------------------------ claims -------------------------------- *)

\* lexicographic order on markers, generation first
MarkerLeq(a, b) ==
    \/ a.generation < b.generation
    \/ a.generation = b.generation /\ a.state_id <= b.state_id

IsLoadNextIndices(t) == args[t].op = "load_next_indices"
OnDiskPath(t) == pc[t] \in {"lock", "recheck", "resolve"}

C1_MonotonicStep ==
    /\ index.generation <= index'.generation
    /\ index.state_id <= index'.state_id
    /\ MarkerLeq(IndexMarker(index), IndexMarker(index'))
    /\ \A t \in Threads :
          /\ held[t].some =>
                /\ held'[t].some
                /\ MarkerLeq(held[t].marker, held'[t].marker)
                /\ held[t].marker.state_id <= held'[t].marker.state_id
          /\ held'[t].some =>
                /\ MarkerLeq(held'[t].marker, IndexMarker(index'))
                /\ held'[t].marker.state_id <= index'.state_id
\* C1: the generation and the state id of the published Index never decrease,
\* and the markers a caller observes in its Snapshots, one after the other, are
\* non-decreasing lexicographically and in their state id; no Snapshot is ever
\* ahead of the published Index.
C1_Monotonicity == [][C1_MonotonicStep]_vars
C1_Witness ==
    /\ index.generation = 1
    /\ index.state_id = 2
    /\ held["t1"].some
    /\ held["t1"].marker = SomeMarker(0, 1)
    /\ pc["t1"] = "done"
    /\ result["t1"].kind = "Replace"
    /\ result["t1"].snapshot.marker = SomeMarker(1, 2)

HasEntry(indices, e) ==
    \E j \in 1..Len(indices) : indices[j].id = e.id /\ indices[j].index = e.index
\* C2: whenever load_next_indices returns ReplaceStable, every slot id of the
\* Snapshot the caller's marker came from is in the new Snapshot, with the same
\* resource.
C2_StableKeepsPriorSlots ==
    \A t \in Threads :
       (pc[t] = "done" /\ result[t].kind = "ReplaceStable") =>
          \A i \in 1..Len(held[t].indices) :
             HasEntry(result[t].snapshot.indices, held[t].indices[i])

\* C3: may_unload_packs answers true exactly when no Handle with the stability
\* flag set is live at the moment of the call.
C3_MayUnloadIffNoStableHandle ==
    maint.pc = "checked" => (maint.may <=> maint.live = 0)
C3_Witness ==
    /\ maint.pc = "checked"
    /\ maint.live = 2
    /\ ~maint.may

\* a step that unmaps pack data that was mapped
Evicts ==
    \E s \in Slots : \E k \in 1..Len(files[s].data) :
       files[s].data[k] /\ Len(files'[s].data) >= k /\ ~files'[s].data[k]
\* C4: no pack is evicted while a Handle that requires stable pack ids is live:
\* between may_unload_packs and the end of the unload, under the path mutex, no
\* Handle becomes stable.
C4_NoEvictionWhileStableLive == [][Evicts => LiveStable = {}]_vars

C5_SnapshotFrameStep ==
    \A t \in Threads :
       /\ (held[t].some /\ pc[t] # "done") => held'[t] = held[t]
       /\ (pc[t] = "done" /\ pc'[t] = "done") => result'[t] = result[t]
\* C5: a Snapshot that was returned is not changed by any later operation: the
\* Snapshot a Handle holds changes only when its owner takes a new result, and a
\* returned outcome stays as it was returned until then.
C5_SnapshotImmutable == [][C5_SnapshotFrameStep]_vars
C5_Witness ==
    /\ held["t1"].some
    /\ Len(held["t1"].indices) = 1
    /\ held["t1"].indices[1].data = <<TRUE>>
    /\ held["t1"].marker = SomeMarker(0, 0)
    /\ files[0].res = "pack-a"
    /\ files[0].data = <<FALSE>>
    /\ index.generation = 1
    /\ index.state_id = 2
    /\ pc["t1"] = "slots"

EqualMarkerNever(t) ==
    /\ IsLoadNextIndices(t)
    /\ args[t].mode = "Never"
    /\ args[t].marker.some
    /\ args[t].marker.generation = args[t].seen.generation
    /\ args[t].marker.state_id = args[t].seen.state_id
\* C6, as stated: load_next_indices(Never, Some(marker)) returns Ok(None)
\* whenever the marker's generation and state id equal the current Index's.
C6_NeverEqualMarkerIsNone ==
    \A t \in Threads :
       (pc[t] = "done" /\ EqualMarkerNever(t)) => result[t].kind = "None"
\* C6, as amended: on an initialized Store, load_next_indices(Never,
\* Some(marker)) with a marker equal to the current Index's returns Ok(None)
\* at once, on every call.
C6_NeverEqualMarkerIsNoneInitialized ==
    \A t \in Threads :
       (EqualMarkerNever(t) /\ args[t].initialized) =>
          pc[t] = "done" /\ result[t].kind = "None"
C6_Witness ==
    /\ pc["t1"] = "done"
    /\ EqualMarkerNever("t1")
    /\ args["t1"].initialized
    /\ args["t1"].marker = SomeMarker(1, 2)
    /\ result["t1"].kind = "None"

\* C7: on an uninitialized Index load_next_indices goes to disk consolidation
\* and returns what consolidation returns, whatever the mode and the marker.
C7_UninitializedConsolidates ==
    \A t \in Threads :
       (IsLoadNextIndices(t) /\ ~args[t].initialized) =>
          /\ args[t].decision = "consolidate"
          /\ OnDiskPath(t) \/ pc[t] = "done"
          /\ pc[t] = "done" => result[t].kind \in {"Err", "Panic"}
C7_Witness ==
    /\ pc["t1"] = "done"
    /\ IsLoadNextIndices("t1")
    /\ ~args["t1"].initialized
    /\ args["t1"].mode = "Never"
    /\ args["t1"].marker = SomeMarker(0, 0)
    /\ result["t1"].kind = "Err"
    /\ numConsolidations = 1

OtherGeneration(t) ==
    /\ IsLoadNextIndices(t)
    /\ args[t].initialized
    /\ args[t].marker.some
    /\ args[t].marker.generation # args[t].seen.generation
\* C8: on an initialized Store a marker of another generation gets
\* Outcome::Replace from memory, never a consolidation, in either mode.
C8_OtherGenerationReplaces ==
    \A t \in Threads :
       OtherGeneration(t) =>
          /\ pc[t] \in {"collect", "slots", "done"}
          /\ pc[t] = "done" => result[t].kind = "Replace" /\ result[t].snapshot.some
C8_Witness ==
    /\ pc["t1"] = "done"
    /\ OtherGeneration("t1")
    /\ args["t1"].mode = "AfterAllIndicesLoaded"
    /\ args["t1"].marker.state_id # args["t1"].seen.state_id
    /\ result["t1"].kind = "Replace"
    /\ numConsolidations = 0

SameGenerationOtherState(t) ==
    /\ IsLoadNextIndices(t)
    /\ args[t].initialized
    /\ args[t].marker.some
    /\ args[t].marker.generation = args[t].seen.generation
    /\ args[t].marker.state_id # args[t].seen.state_id
\* C9: on an initialized Store a marker of the current generation with another
\* state id gets Outcome::ReplaceStable from memory, never a consolidation, in
\* either mode.
C9_OtherStateReplacesStable ==
    \A t \in Threads :
       SameGenerationOtherState(t) =>
          /\ pc[t] \in {"collect", "slots", "done"}
          /\ pc[t] = "done" =>
                result[t].kind = "ReplaceStable" /\ result[t].snapshot.some
C9_Witness ==
    /\ pc["t1"] = "done"
    /\ SameGenerationOtherState("t1")
    /\ args["t1"].mode = "AfterAllIndicesLoaded"
    /\ result["t1"].kind = "ReplaceStable"
    /\ Len(result["t1"].snapshot.indices) = 2
    /\ numConsolidations = 0

NoMarkerCall(t) ==
    /\ IsLoadNextIndices(t)
    /\ args[t].initialized
    /\ ~args[t].marker.some
\* C10: on an initialized Store a call without a marker gets Outcome::Replace
\* with a Snapshot of the Index as it is, never a consolidation, in either mode.
C10_NoMarkerReplaces ==
    \A t \in Threads :
       NoMarkerCall(t) =>
          /\ pc[t] \in {"collect", "slots", "done"}
          /\ pc[t] = "done" =>
                /\ result[t].kind = "Replace"
                /\ result[t].snapshot.some
                /\ MarkerLeq(args[t].seen, result[t].snapshot.marker)
                /\ MarkerLeq(result[t].snapshot.marker, IndexMarker(index))
C10_Witness ==
    /\ pc["t1"] = "done"
    /\ NoMarkerCall("t1")
    /\ args["t1"].mode = "AfterAllIndicesLoaded"
    /\ result["t1"].kind = "Replace"
    /\ result["t1"].snapshot.marker = IndexMarker(index)
    /\ Len(result["t1"].snapshot.indices) = 1
    /\ numConsolidations = 0

EqualMarkerRefresh(t) ==
    /\ IsLoadNextIndices(t)
    /\ args[t].initialized
    /\ args[t].mode = "AfterAllIndicesLoaded"
    /\ args[t].marker.some
    /\ args[t].marker.generation = args[t].seen.generation
    /\ args[t].marker.state_id = args[t].seen.state_id
\* C11: on an initialized Store a call with the current marker and mode
\* AfterAllIndicesLoaded goes to disk consolidation, and when the disk holds
\* nothing new the call returns Ok(None).
C11_RefreshUnchangedIsNone ==
    \A t \in Threads :
       EqualMarkerRefresh(t) =>
          /\ args[t].decision = "consolidate"
          /\ (pc[t] = "done" /\ args[t].disk = "unchanged") => result[t].kind = "None"

\* C12: no call of load_next_indices or of disk consolidation ends in a panic.
C12_NoPanic == \A t \in Threads : result[t].kind # "Panic"

\* C13: when alternate::resolve fails during consolidation, that very step
\* ends the call with the I/O error: the consolidation is not entered again,
\* the counter is not touched again and the mutex is given back.
C13_ErrorReturnedStep ==
    \A t \in Threads :
       (pc[t] = "resolve" /\ args'[t].disk = "unreadable") =>
          /\ pc'[t] = "done"
          /\ result'[t].kind = "Err"
          /\ numConsolidations' = numConsolidations
          /\ pathLock' # t
C14_FirstCallReplaces ==
    \A t \in Threads :
       (/\ pc[t] = "done"
        /\ IsLoadNextIndices(t)
        /\ ~args[t].initialized
        /\ ~args[t].marker.some
        /\ args[t].disk \in {"unchanged", "new-pack"}) =>
          result[t].kind = "Replace"

\* C15: with one populated slot and a new pack on disk,
\* load_next_indices(AfterAllIndicesLoaded, Some(marker)) with the current
\* marker returns Outcome::ReplaceStable with two slots, the first one kept.
C15_NewPackReplacesStable ==
    \A t \in Threads :
       (/\ pc[t] = "done"
        /\ EqualMarkerRefresh(t)
        /\ args[t].disk = "new-pack"
        /\ Len(index.slot_indices) = 1) =>
          /\ result[t].kind = "ReplaceStable"
          /\ Len(result[t].snapshot.indices) = 2
          /\ result[t].snapshot.indices[1].id = index.slot_indices[1]

\* C16: only a call in disk consolidation holds the path mutex, and every step
\* of the fast path and of collect_snapshot can be taken whoever holds it.
C16_FastPathNeverLocks ==
    \A t \in Threads :
       /\ pathLock = t =>
             args[t].decision = "consolidate" /\ pc[t] \in {"recheck", "resolve"}
       /\ pc[t] = "collect" => ENABLED CollectLoadIndex(t)
       /\ pc[t] = "slots" => ENABLED CollectSlot(t)
       /\ (pc[t] = "idle" /\ index.initialized) =>
             ENABLED LoadNextIndices(t, "Never", FALSE)
C16_Witness ==
    /\ pathLock = "t2"
    /\ pc["t2"] = "resolve"
    /\ pc["t1"] = "slots"
    /\ args["t1"].decision = "stable"
    /\ args["t1"].seen = SomeMarker(0, 1)

\* the Index a running collect_snapshot works on: the one its load gets in this
\* step, or the one it got
BuiltFrom(t) ==
    IF pc[t] = "collect"
    THEN [marker |-> IndexMarker(index), loose_dbs |-> index.loose_dbs]
    ELSE [marker |-> work[t].marker, loose_dbs |-> work[t].loose_dbs]
C17_MarkerStep ==
    \A t \in Threads :
       /\ (pc[t] \in {"collect", "slots"} /\ pc'[t] = "done") =>
             /\ result'[t].snapshot.marker = BuiltFrom(t).marker
             /\ result'[t].snapshot.loose_dbs = BuiltFrom(t).loose_dbs
       /\ (pc[t] = "collect" /\ pc'[t] = "slots") =>
             /\ work'[t].marker = IndexMarker(index)
             /\ work'[t].loose_dbs = index.loose_dbs
             /\ work'[t].slot_indices = index.slot_indices
       /\ (pc[t] = "slots" /\ pc'[t] = "slots") =>
             /\ work'[t].marker = work[t].marker
             /\ work'[t].loose_dbs = work[t].loose_dbs
             /\ work'[t].slot_indices = work[t].slot_indices
\* C17: the marker and the loose-db list of every Snapshot collect_snapshot
\* produces are those of the one Index its atomic load got.
C17_MarkerOfBuiltIndex == [][C17_MarkerStep]_vars
C17_Witness ==
    /\ pc["t1"] = "done"
    /\ result["t1"].kind = "Snapshot"
    /\ result["t1"].snapshot.marker = SomeMarker(0, 0)
    /\ result["t1"].snapshot.loose_dbs = 0
    /\ index.state_id = 1
    /\ index.loose_dbs = 1

\* what collect_snapshot has gathered after this step
Gathered(t) == IF pc'[t] = "done" THEN result'[t].snapshot.indices ELSE work'[t].acc
C18_IndicesStep ==
    \A t \in Threads :
       (pc[t] = "slots" /\ (pc'[t] = "done" \/ work'[t].cursor # work[t].cursor)) =>
          LET id == work[t].slot_indices[work[t].cursor]
              f == files[id]
          IN IF f.kind # "None" /\ f.index
             THEN Gathered(t) =
                     Append(work[t].acc,
                            [id |-> id,
                             kind |-> IF f.kind = "Index" THEN "Single" ELSE "Multi",
                             index |-> f.res,
                             data |-> f.data])
             ELSE Gathered(t) = work[t].acc
\* C18: collect_snapshot walks the Index's slot list in order and adds, tagged
\* with its slot id, every slot that holds a resource whose index is loaded,
\* whether its pack data is mapped or not; it skips every other slot.
C18_IndicesAreLoadedSlots == [][C18_IndicesStep]_vars
C18_Witness ==
    /\ pc["t1"] = "done"
    /\ result["t1"].kind = "Replace"
    /\ Len(result["t1"].snapshot.indices) = 1
    /\ result["t1"].snapshot.indices[1].id = 1
    /\ result["t1"].snapshot.indices[1].kind = "Multi"
    /\ result["t1"].snapshot.indices[1].data = <<FALSE>>
    /\ result["t1"].snapshot.marker = SomeMarker(0, 1)
    /\ index.slot_indices = <<0, 1>>
    /\ ~files[0].index

Ids(indices) == {indices[i].id : i \in 1..Len(indices)}
\* a slot of the current Index that the Snapshot t holds (of this very Index)
\* left out and that is loaded now
OmittedAndLoaded(t, s) ==
    /\ held[t].some
    /\ held[t].marker = IndexMarker(index)
    /\ s \in Range(index.slot_indices)
    /\ s \notin Ids(held[t].indices)
    /\ files[s].index
C19_PickUpStep ==
    \A t \in Threads : \A s \in Slots :
       (/\ pc[t] = "idle"
        /\ IsLoadNextIndices(t)'
        /\ args'[t].mode = "Never"
        /\ args'[t].marker.some
        /\ OmittedAndLoaded(t, s)) =>
          args'[t].decision \in {"replace", "stable"}
\* C19: when a slot that the caller's Snapshot left out is loaded, the caller's
\* next load_next_indices call with that Snapshot's marker (here: with mode
\* Never) goes on to return a new Snapshot, Replace or ReplaceStable.
C19_LoadedSlotPickedUp == [][C19_PickUpStep]_vars

InCritical(t) == pc[t] \in {"recheck", "resolve"}
\* C20: at most one thread at a time is between taking the path mutex and the
\* end of consolidate_with_disk_state, and that thread is the mutex's holder.
C20_ConsolidationsExclusive ==
    /\ Cardinality({t \in Threads : InCritical(t)}) <= 1
    /\ \A t \in Threads : InCritical(t) <=> pathLock = t
C20_Witness ==
    /\ pc["t1"] = "resolve"
    /\ pc["t2"] = "lock"
    /\ pathLock = "t1"
    /\ numConsolidations = 1

Returned == {"None", "Replace", "ReplaceStable", "Err"}
C21_RecheckStep ==
    \A t \in Threads :
       (/\ pc[t] = "recheck"
        /\ pc'[t] # "recheck"
        /\ args[t].seen.state_id # index.state_id) =>
          /\ numConsolidations' = numConsolidations
          /\ result'[t].kind \in Returned \cup {"Pending"}
\* C21: a thread that finds under the lock that the Index's state_id differs
\* from the one it observed does not consolidate (the counter stays) and its
\* call goes on to a fresh decision or returns; it does not panic.
C21_StateChangedIsHandled == [][C21_RecheckStep]_vars

HasSnapshot(t) == result[t].kind \in {"Replace", "ReplaceStable", "Snapshot"}
\* C22: every copy of the Index a reader works on or returns (what line 40
\* loaded, collect_snapshot's Index, the Snapshot's marker and loose-db list)
\* is that of one single Index value the pointer has held, never a mix.
C22_ReadersSeeOnePublishedIndex ==
    /\ index \in published
    /\ \A t \in Threads :
          /\ args[t].seen.some =>
                \E i \in published : /\ IndexMarker(i) = args[t].seen
                                     /\ i.initialized = args[t].initialized
          /\ pc[t] = "slots" =>
                \E i \in published : /\ IndexMarker(i) = work[t].marker
                                     /\ i.slot_indices = work[t].slot_indices
                                     /\ i.loose_dbs = work[t].loose_dbs
          /\ HasSnapshot(t) =>
                \E i \in published :
                   /\ IndexMarker(i) = result[t].snapshot.marker
                   /\ i.loose_dbs = result[t].snapshot.loose_dbs
                   /\ Ids(result[t].snapshot.indices) \subseteq Range(i.slot_indices)
C22_Witness ==
    /\ pc["t1"] = "slots"
    /\ work["t1"].marker = SomeMarker(0, 0)
    /\ work["t1"].slot_indices = <<0>>
    /\ index.state_id = 2
    /\ index.generation = 1
    /\ Cardinality(published) = 3

Populated(f) == {s \in Slots : f[s].kind # "None"}
C23_StateIdStep ==
    /\ index' # index => index'.state_id > index.state_id
    /\ (Populated(files') # Populated(files) \/ \E s \in Slots : files'[s].res # files[s].res) =>
          index'.state_id > index.state_id
    /\ \A i, j \in published' :
          IndexMarker(i) = IndexMarker(j) =>
             i.slot_indices = j.slot_indices /\ i.loose_dbs = j.loose_dbs
\* C23: every change of the populated slots comes with an Index of a larger
\* state_id, also within one generation, and two Indexes the Store has
\* published with the same generation and state_id have the same slot list and
\* loose-db list.
C23_StateIdNamesTheIndex == [][C23_StateIdStep]_vars
C23_Witness ==
    /\ index.generation = 0
    /\ index.state_id = 2
    /\ Len(index.slot_indices) = 2
    /\ Cardinality(published) = 3

IsPrefix(a, b) == Len(a) <= Len(b) /\ SubSeq(b, 1, Len(a)) = a
C24_GenerationStep ==
    index'.generation = index.generation =>
       /\ IsPrefix(index.slot_indices, index'.slot_indices)
       /\ \A s \in Range(index.slot_indices) :
             files'[s].kind = files[s].kind /\ files'[s].res = files[s].res
\* C24: while the generation stays, every slot of the Index stays in its place
\* with the same resource and slots are only added; dropping a slot or giving
\* its id to another resource comes with a bumped generation.
C24_GenerationGuardsSlotIds == [][C24_GenerationStep]_vars
C24_Witness ==
    /\ index.generation = 1
    /\ index.state_id = 2
    /\ index.slot_indices = <<1>>
    /\ files[0] = EmptySlot

C25_CounterStep ==
    /\ numConsolidations' >= numConsolidations
    /\ numConsolidations' # numConsolidations =>
          /\ numConsolidations' = numConsolidations + 1
          /\ \E t \in Threads : /\ pc[t] = "recheck"
                                /\ pc'[t] = "resolve"
                                /\ args[t].seen.state_id = index.state_id
    /\ \A t \in Threads :
          /\ (pc[t] = "recheck" /\ pc'[t] = "resolve") =>
                numConsolidations' = numConsolidations + 1
          /\ (pc[t] = "recheck" /\ pc'[t] = "done") =>
                numConsolidations' = numConsolidations
\* C25: the consolidation counter goes up by exactly one when, and only when,
\* consolidate_with_disk_state passes the state_id re-check; no other step of
\* load_next_indices or collect_snapshot changes it and it never goes down.
C25_CounterCountsConsolidations == [][C25_CounterStep]_vars
C25_Witness ==
    /\ numConsolidations = 1
    /\ pc["t1"] = "done"
    /\ result["t1"].kind = "Panic"
    /\ args["t1"].disk = "none"
    /\ pc["t2"] = "resolve"

C26_ConsolidationEndStep ==
    \A t \in Threads :
       (OnDiskPath(t) /\ pc'[t] = "done") =>
          /\ result'[t].kind \in Returned
          /\ pathLock' # t
\* C26: every call that entered disk consolidation ends by returning
\* (Ok(None), Ok(Some(outcome)) or Err) with the path mutex released.
C26_ConsolidationReturns == [][C26_ConsolidationEndStep]_vars

\* C27: when load_next_indices returns ReplaceStable to a caller with marker m,
\* the Snapshot's marker has the generation of m.
C27_StableSnapshotOfSameGeneration ==
    \A t \in Threads :
       (pc[t] = "done" /\ IsLoadNextIndices(t) /\ result[t].kind = "ReplaceStable") =>
          result[t].snapshot.marker.generation = args[t].marker.generation

\* C28: on an initialized Store a call is on the disk path exactly when its
\* marker equals the Index's and the mode is AfterAllIndicesLoaded; any other
\* call never waits for or holds the mutex and never reads the disk, and
\* Ok(None) from the fast path is the answer to an equal marker with mode Never
\* only.
C28_OnlyEqualMarkerRefreshConsolidates ==
    \A t \in Threads :
       (IsLoadNextIndices(t) /\ args[t].initialized) =>
          /\ args[t].decision = "consolidate" <=> EqualMarkerRefresh(t)
          /\ args[t].decision = "none" <=> EqualMarkerNever(t)
          /\ ~EqualMarkerRefresh(t) =>
                /\ ~OnDiskPath(t)
                /\ pathLock # t
                /\ args[t].disk = "none"
                /\ result[t].kind \notin {"Err", "Panic"}
          /\ result[t].kind = "None" => EqualMarkerNever(t)
C28_Witness ==
    /\ pc["t1"] = "recheck"
    /\ pathLock = "t1"
    /\ EqualMarkerRefresh("t1")
    /\ args["t1"].seen = SomeMarker(0, 1)
    /\ numConsolidations = 0

\* a step of t on the fast path of load_next_indices or in collect_snapshot
FastStep(t) ==
    \/ pc[t] = "idle" /\ pc'[t] \in {"done", "collect"}
    \/ pc[t] \in {"collect", "slots"} /\ (pc'[t] # pc[t] \/ work'[t] # work[t])
C29_FrameStep ==
    \A t \in Threads :
       FastStep(t) =>
          /\ index' = index
          /\ files' = files
          /\ numConsolidations' = numConsolidations
          /\ numHandlesStable' = numHandlesStable
          /\ pathLock' = pathLock
\* C29: no step of a load_next_indices call that stays off the disk path, and
\* no step of collect_snapshot, changes the Index, the slots, the consolidation
\* counter, the handle count or the mutex.
C29_FastPathLeavesStore == [][C29_FrameStep]_vars
C29_Witness ==
    /\ pc["t1"] = "done"
    /\ result["t1"].kind = "Replace"
    /\ result["t1"].snapshot.marker = SomeMarker(0, 2)
    /\ result["t1"].snapshot.indices = <<>>
    /\ index.state_id = 2
    /\ ~files[0].index
    /\ ~files[1].index
    /\ numConsolidations = 0

C30_ErrorStep ==
    \A t \in Threads :
       (pc[t] = "resolve" /\ result'[t].kind = "Err") =>
          /\ index' = index
          /\ files' = files
          /\ pathLock' = "free"
\* C30: the step in which a consolidation fails with the I/O error of
\* alternate::resolve leaves the Index (generation, state_id, initialized
\* flag, slot list) and the slots as they were and frees the path mutex.
C30_ErrorLeavesStore == [][C30_ErrorStep]_vars
C30_Witness ==
    /\ pc["t1"] = "done"
    /\ result["t1"].kind = "Err"
    /\ args["t1"].mode = "AfterAllIndicesLoaded"
    /\ ~args["t1"].marker.some
    /\ ~args["t1"].initialized
    /\ index = UninitializedIndex
    /\ pathLock = "free"

\* The long magic of a pathspec as its grammar gives it: ':' and short magic
\* characters, '(', then everything up to the first ')'.
LongMagicOpen(inp) ==
    CHOOSE k \in 1..Len(inp) : inp[k] = "(" /\ \A j \in 1..(k - 1) : inp[j] # "("
HasLongMagic(inp) ==
    /\ Len(inp) >= 2
    /\ inp[1] = ":"
    /\ \E k \in 2..Len(inp) :
          /\ inp[k] = "("
          /\ \A j \in 2..(k - 1) : inp[j] \in {"/", "!", "^"}
          /\ \E e \in (k + 1)..Len(inp) : inp[e] = ")"
LongMagic(inp) == SubSeq(inp, LongMagicOpen(inp) + 1, Find(inp, ")"))
\* the keywords of a long magic: its parts between the commas not preceded by
\* a backslash
IsSeparator(body, i) == body[i] = "," /\ (i = 1 \/ body[i - 1] # "\\")
RECURSIVE KeywordsFrom(_, _)
KeywordsFrom(body, from) ==
    IF \E c \in from..Len(body) : IsSeparator(body, c)
    THEN LET c == CHOOSE c \in from..Len(body) :
                     IsSeparator(body, c) /\ \A d \in from..(c - 1) : ~IsSeparator(body, d)
         IN <<SubSeq(body, from, c - 1)>> \o KeywordsFrom(body, c + 1)
    ELSE <<SubSeq(body, from, Len(body))>>
Named(inp) == IF LongMagic(inp) = <<>> THEN <<>> ELSE KeywordsFrom(LongMagic(inp), 1)
Names(inp, keyword) == \E k \in 1..Len(Named(inp)) : Named(inp)[k] = keyword
\* keyword k of ks is one parse_long_keywords takes without an error
Taken(ks, k) ==
    \/ ks[k] \in {KwAttr, KwTop, KwIcase, KwExclude, KwLiteral, KwGlob}
    \/ StartsWith(ks[k], PrefixPrefix)
    \/ /\ StartsWith(ks[k], AttrPrefix)
       /\ Len(ks[k]) > Len(AttrPrefix)
       /\ \A j \in 1..(k - 1) : ~StartsWith(ks[j], AttrPrefix)
\* where the second of the two search modes is named first
First(ks, keyword) == CHOOSE k \in 1..Len(ks) : ks[k] = keyword /\ \A j \in 1..(k - 1) : ks[j] # keyword
Clash(ks) ==
    IF First(ks, KwLiteral) > First(ks, KwGlob) THEN First(ks, KwLiteral)
    ELSE First(ks, KwGlob)
ModeNamed(inp) ==
    IF Names(inp, KwLiteral) THEN "Literal"
    ELSE IF Names(inp, KwGlob) THEN "PathAwareGlob"
    ELSE "ShellGlob"
Incompatible == Err("IncompatibleSearchModes")
====
